---- MODULE Spec2Model ----
(***************************************************************************)
(* Thread / lock / queue discipline of condynsate's background workers:    *)
(* the Visualizer's scene worker with its guarded action buffer, and the   *)
(* Figure / Lineplot / Barchart drawer threads with their dirty flags;     *)
(* the Project that composes the subsystems; and the Animator with its     *)
(* frame clock and its recording.                                          *)
(* One instance is under study at a time; Init chooses which one.          *)
(***************************************************************************)
EXTENDS Integers, Sequences, FiniteSets, TLC

(***************************************************************************)
(* Bounds of the model.                                                    *)
(***************************************************************************)
\* number of setter / mutator calls the main thread makes
MaxCalls == 2
\* number of terminate() calls the main thread makes
MaxTerminates == 2
\* frame_delta of a throttled worker, in ticks of 5 ms (time.sleep(0.005))
MaxFrameDelta == 3
\* number of artists (lines, bars) of a subplot
NArtists == 2
\* number of operations the main thread calls on a Project
MaxOps == 3
\* largest finite timeout of await_*, in sleeps of 10 ms (time.sleep(0.01))
MaxTimeout == 2
\* visual data items of the bodies at a refresh_visualizer
MaxVisualData == 1
\* last value of the Animator's tick counter (the clock stops there)
MaxTick == 10
\* frame_delta of a throttled Animator, in ticks of the tick counter
MaxAnimDelta == 2
\* number of mutator / reset calls the main thread makes on an Animator
MaxAnimCalls == 1
\* ticks per second of the Animator's tick counter
TickFrequency == 130
\* number of captures an Animator makes
MaxCaptures == 3
\* arrows a body stages between two successful refreshes
MaxArrows == 2

Kinds == {"Visualizer", "Figure", "Lineplot", "Barchart", "Project",
          "Animator", "AnimatorSetup"}
Subsystems == {"simulator", "visualizer", "animator", "keyboard"}
None == "None"
\* timeout=None of await_keypress / await_anykeys
NoTimeout == -1
Names == {"a", "b"}
Lights == {"SpotLight", "PointLightPositiveX"}
NoName == "-"
\* a subplot the Animator no longer has
NoPlot == -1
\* no video was made
NoVideo == [fps |-> 0, idx |-> <<>>, cap_t |-> <<>>, images |-> <<>>]
\* the video frame rate is a multiple of FpsStep within MinFps..MaxFps
FpsStep == 5
MinFps == 20
MaxFps == 120
\* the base of the artist ids, and the most artists a subplot has
HexBase == 16
\* the largest artist id _is_valid_id accepts
MaxId == 255
\* the subplot count at which _assert_can_add_subplot refuses
PlotLimit == 17
\* the n_lines / n_bars arguments tried
ArtistCounts == {0, 1, HexBase, HexBase + 1}

Artists == 1..NArtists
\* the subplots added to the Animator, in order
Plots == <<"Lineplot", "Barchart">>
PlotIds == DOMAIN Plots

VARIABLES
    kind,           \* which class the instance under study is
    THREADED,       \* self._THREADED (always TRUE for the Visualizer)
    LOCK,           \* self._LOCK: "free", or the thread holding it
    done,           \* self._done
    mpc,            \* main thread: position inside terminate(), or "idle"
    wpc,            \* worker thread: position inside its loop
    ncalls,         \* setter / mutator calls made so far (the call's id)
    nterm,          \* terminate() calls that have returned
    ret,            \* return codes of the terminate() calls, in order
    \* ---- Visualizer
    frame_delta,    \* self.frame_delta in ticks
    elapsed,        \* ticks since self._last_refresh, capped at frame_delta
    socket_closed,  \* self._socket.closed
    actions_buf,    \* self._actions_buf: insertion-ordered dict
    actions,        \* the worker's local dict of drained actions
    it,             \* position of the worker's for-loop over a dict
    objects,        \* self._objects (the names)
    scene,          \* actions the scene backend has received, in order
    sret,           \* what the last Visualizer setter returned
    \* ---- Lineplot / Barchart
    data,           \* self.data / self.values, per artist: id of the call
    shared,         \* the artists whose data is still the constructor's list
    need_redraw,    \* self._need_redraw
    inds,           \* the redraw's local line_inds / bar_inds
    artist,         \* what each line / bar artist holds
    raised,         \* an exception left a call of the main thread
    \* ---- history
    issued,         \* actions enqueued so far
    superseded,     \* actions replaced in the buffer before being drained
    at_term,        \* calls made before the first terminate() was invoked
    unchecked,      \* sleeps the worker completed since done was set
    \* ---- the Figure behind a threaded Lineplot / Barchart
    fpc,            \* the figure's drawer thread: position inside its loop
    \* ---- Project
    present,        \* per subsystem: the Project's reference is not None
    connected,      \* the simulator's physics client is connected
    running,        \* the animator is started
    pressed,        \* the keyboard reports the awaited key as pressed
    ppc,            \* main thread: position inside await_*, or "idle"
    op,             \* the Project operation called last
    nops,           \* Project operations called so far
    calls,          \* subsystem calls the operation made, in order
    pret,           \* what the operation returned
    timeout,        \* the timeout argument of await_*, in sleeps of 10 ms
    waited,         \* time.time() - start, capped past the largest timeout
    arrows,         \* a body's self._arrows['com_force']: its staged arrows
    drawn,          \* arrows staged since the last successful refresh
    cleared,        \* staged arrows the last refresh took out of the buffer
    \* ---- Animator
    record,         \* self.record
    started,        \* self._started
    now,            \* cv2.getTickCount()
    last_refresh,   \* self._last_refresh
    frames,         \* self._frames: the image each capture holds
    frame_times,    \* self._frame_times: the tick of each capture
    image,          \* what self._figure.get_image() returns
    plot_data,      \* per subplot: the id of the call that set its data
    plot_dirty,     \* per subplot: its redraw flag
    acalls,         \* Animator calls made so far (the call's id)
    video,          \* the video _save_recording made last, or NoVideo
    aret,           \* what the last Animator call returned
    nshown,         \* cv2.imshow calls made so far
    \* ---- Animator, before start()
    plots,          \* self._plots: the number of artists of each subplot
    ids,            \* the artist ids the last add_* returned
    adderr,         \* how the last add_* ended: "ok" or the error it raised
    tlog            \* what the last terminate() of the Animator did, in order

vars == <<kind, THREADED, LOCK, done, mpc, wpc, ncalls, nterm, ret,
          frame_delta, elapsed, socket_closed, actions_buf, actions, it,
          objects, scene, sret, data, shared, need_redraw, inds, artist,
          raised, issued, superseded, at_term, unchecked, fpc,
          present, connected, running, pressed, ppc, op, nops, calls, pret,
          timeout, waited, arrows, drawn, cleared,
          record, started, now, last_refresh, frames, frame_times, image,
          plot_data, plot_dirty, acalls, video, aret, nshown,
          plots, ids, adderr, tlog>>

setupVars == <<plots, ids, adderr>>

animVars == <<record, started, now, last_refresh, frames, frame_times, image,
              plot_data, plot_dirty, acalls, video, aret, nshown, setupVars,
              tlog>>

projVars == <<present, connected, running, pressed, ppc, op, nops, calls,
              pret, timeout, waited, arrows, drawn, cleared>>

workerVars == <<THREADED, LOCK, done, mpc, wpc, ncalls, nterm, ret,
                frame_delta, elapsed, socket_closed, actions_buf, actions, it,
                objects, scene, sret, data, shared, need_redraw, inds,
                artist, raised, issued, superseded, at_term, unchecked, fpc>>

figVars == <<fpc>>

Min(a, b) == IF a < b THEN a ELSE b

(***************************************************************************)
(* The action buffer: a Python dict bound-method -> args.  A dict keeps    *)
(* its keys in insertion order, so it is a sequence of entries; args is    *)
(* the list of (name, call) pairs of the entry (one pair, with no name,    *)
(* for the setters whose args is a single tuple).                          *)
(***************************************************************************)
Entry(fnc, args) == [fnc |-> fnc, args |-> args]

HasKey(buf, fnc) == \E i \in 1..Len(buf) : buf[i].fnc = fnc

KeyIdx(buf, fnc) == CHOOSE i \in 1..Len(buf) : buf[i].fnc = fnc

\* self._actions_buf[fnc] = args
SetItem(buf, fnc, args) ==
    IF HasKey(buf, fnc)
    THEN [buf EXCEPT ![KeyIdx(buf, fnc)] = Entry(fnc, args)]
    ELSE Append(buf, Entry(fnc, args))

HasName(args, name) == \E i \in 1..Len(args) : args[i][1] = name

\* the first i with a[0] == name
NameIdx(args, name) ==
    CHOOSE i \in 1..Len(args) :
        /\ args[i][1] = name
        /\ \A j \in 1..(i-1) : args[j][1] # name

\* a replace-or-append that never finds the name: it always appends
UpsertNeverReplaces(buf, fnc, name, id) ==
    IF HasKey(buf, fnc)
    THEN [buf EXCEPT ![KeyIdx(buf, fnc)].args = Append(@, <<name, id>>)]
    ELSE Append(buf, Entry(fnc, << <<name, id>> >>))

\* the per-name replace-or-append of set_transform, set_material, the lights
UpsertNamed(buf, fnc, name, id) ==
    IF HasKey(buf, fnc)
    THEN LET k == KeyIdx(buf, fnc)
             old == buf[k].args
         IN IF HasName(old, name)
            THEN [buf EXCEPT ![k].args[NameIdx(old, name)] = <<name, id>>]
            ELSE [buf EXCEPT ![k].args = Append(old, <<name, id>>)]
    ELSE Append(buf, Entry(fnc, << <<name, id>> >>))

\* the add action of add_object: always appended
AppendNamed(buf, fnc, name, id) ==
    IF ~HasKey(buf, fnc)
    THEN Append(buf, Entry(fnc, << <<name, id>> >>))
    ELSE [buf EXCEPT ![KeyIdx(buf, fnc)].args = Append(@, <<name, id>>)]

\* the actions of a dict from position from on, as a set of
\* <<fnc, name, call>>
ActsFrom(buf, from) ==
    UNION {{<<buf[i].fnc, buf[i].args[j][1], buf[i].args[j][2]>> :
              j \in 1..Len(buf[i].args)} : i \in from..Len(buf)}

\* the calls the scene backend receives when the entry is executed
ExecEntry(e) == [j \in 1..Len(e.args) |-> <<e.fnc, e.args[j][1], e.args[j][2]>>]

\* the pending action a call for (fnc, name) replaces, if any
Replaced(buf, fnc, name) ==
    IF HasKey(buf, fnc) /\ HasName(buf[KeyIdx(buf, fnc)].args, name)
    THEN LET a == buf[KeyIdx(buf, fnc)].args
         IN {<<fnc, name, a[NameIdx(a, name)][2]>>}
    ELSE {}

(***************************************************************************)
(* Construction.  The Visualizer's constructor starts the worker and then  *)
(* queues the default scene settings (_set_defaults); the call id 0 stands *)
(* for those default arguments.                                            *)
(***************************************************************************)
Defaults ==
    << Entry("_set_grid", << <<NoName, 0>> >>),
       Entry("_set_lights", << <<"SpotLight", 0>>,
                               <<"PointLightPositiveX", 0>> >>),
       Entry("_set_cam_zoom", << <<NoName, 0>> >>) >>

\* what the scene backend has received once the worker has executed the
\* defaults and an add_object("a") made right after construction
Loaded ==
    ExecEntry(Defaults[1]) \o ExecEntry(Defaults[2]) \o ExecEntry(Defaults[3])
    \o << <<"_add_objects", "a", 0>>, <<"_set_transforms", "a", 0>> >>

\* a Visualizer is studied from its construction on or, without a frame
\* rate, from the state in which a first object is in the scene
Init ==
    /\ kind \in Kinds
    /\ THREADED \in (IF kind = "Visualizer" THEN {TRUE}
                     ELSE IF kind \in {"Project", "Animator", "AnimatorSetup"}
                     THEN {FALSE}
                     ELSE BOOLEAN)
    /\ LOCK = "free"
    /\ done = FALSE
    /\ mpc = "idle"
    /\ wpc = IF kind = "Visualizer" THEN "frame"
             ELSE IF THREADED THEN "redraw" ELSE "none"
    /\ ncalls = 0
    /\ nterm = 0
    /\ ret = <<>>
    /\ frame_delta \in (IF kind = "Visualizer" THEN {0, MaxFrameDelta}
                        ELSE IF kind = "Animator" THEN {0, MaxAnimDelta}
                        ELSE {0})
    /\ elapsed = 0
    /\ socket_closed = FALSE
    /\ objects \in (IF kind = "Visualizer" /\ frame_delta = 0
                    THEN {{}, {"a"}} ELSE {{}})
    /\ actions_buf = IF kind = "Visualizer" /\ objects = {}
                     THEN Defaults ELSE <<>>
    /\ actions = <<>>
    /\ it = 1
    /\ scene = IF objects = {} THEN <<>> ELSE Loaded
    /\ sret = None
    /\ data = [i \in Artists |-> 0]
    /\ shared = IF kind = "Lineplot" THEN Artists ELSE {}
    /\ need_redraw = [i \in Artists |-> FALSE]
    /\ inds = <<>>
    /\ artist = [i \in Artists |-> 0]
    /\ raised = FALSE
    /\ issued = IF kind # "Visualizer" THEN {}
                ELSE ActsFrom(Defaults, 1) \cup
                     {scene[k] : k \in 1..Len(scene)}
    /\ superseded = {}
    /\ at_term = 0
    /\ unchecked = 0
    /\ fpc = IF kind \in {"Lineplot", "Barchart"} /\ THREADED
             THEN "redraw" ELSE "none"
    /\ present \in (IF kind = "Project"
                    THEN {f \in [Subsystems -> BOOLEAN] : f["simulator"]}
                    ELSE {[s \in Subsystems |-> FALSE]})
    /\ connected = (kind = "Project")
    /\ running = FALSE
    /\ pressed = FALSE
    /\ ppc = "idle"
    /\ op = None
    /\ nops = 0
    /\ calls = <<>>
    /\ pret = None
    /\ timeout = NoTimeout
    /\ waited = 0
    /\ arrows = <<>>
    /\ drawn = 0
    /\ cleared = 0
    /\ record \in (IF kind = "Animator" THEN BOOLEAN ELSE {FALSE})
    /\ started = FALSE
    /\ now = 0
    /\ last_refresh = 0
    /\ frames = <<>>
    /\ frame_times = <<>>
    /\ image = [i \in PlotIds |-> 0]
    /\ plot_data = [i \in PlotIds |-> 0]
    /\ plot_dirty = [i \in PlotIds |-> FALSE]
    /\ acalls = 0
    /\ video = NoVideo
    /\ aret = None
    /\ nshown = 0
    /\ plots = <<>>
    /\ ids = <<>>
    /\ adderr = None
    /\ tlog = <<>>

(***************************************************************************)
(* Visualizer setters (main thread).  Each validates, then queues under    *)
(* the lock; the critical section is one step.                             *)
(***************************************************************************)
CanCall ==
    /\ mpc = "idle"
    /\ ncalls < MaxCalls
    /\ LOCK = "free"

Queue(newbuf, acts, replaced) ==
    /\ actions_buf' = newbuf
    /\ issued' = issued \cup acts
    /\ superseded' = superseded \cup replaced
    /\ ncalls' = ncalls + 1
    /\ sret' = "0"
    /\ UNCHANGED <<animVars, figVars, projVars,
                   kind, THREADED, LOCK, done, mpc, wpc, nterm, ret,
                   frame_delta, elapsed, socket_closed, actions, it, scene,
                   data, shared, need_redraw, inds, artist, raised, at_term,
                   unchecked>>

\* the input sanitizing fails: warn and return -1, before the lock is taken
Reject ==
    /\ mpc = "idle"
    /\ ncalls < MaxCalls
    /\ ncalls' = ncalls + 1
    /\ sret' = "-1"
    /\ UNCHANGED <<animVars, figVars, projVars,
                   kind, THREADED, LOCK, done, mpc, wpc, nterm, ret,
                   frame_delta, elapsed, socket_closed, actions_buf, actions,
                   it, scene, data, shared, need_redraw, inds, artist, raised,
                   issued, superseded, at_term, unchecked>>

\* set_grid, set_axes, set_background, set_cam_*: buf[fnc] = args;
\* valid: the arguments pass the input sanitizing
SetSimple(fnc) ==
    /\ kind = "Visualizer"
    /\ \E valid \in BOOLEAN :
          IF valid
          THEN /\ CanCall
               /\ Queue(SetItem(actions_buf, fnc, << <<NoName, ncalls + 1>> >>),
                        {<<fnc, NoName, ncalls + 1>>},
                        Replaced(actions_buf, fnc, NoName))
          ELSE Reject
    /\ UNCHANGED objects

set_grid == SetSimple("_set_grid")

set_cam_zoom == SetSimple("_set_cam_zoom")

\* set_spotlight, set_posx_light, ...: the same body with another name
set_light ==
    \E name \in Lights, valid \in BOOLEAN :
        /\ kind = "Visualizer"
        /\ IF valid
           THEN /\ CanCall
                /\ Queue(UpsertNamed(actions_buf, "_set_lights", name,
                                     ncalls + 1),
                         {<<"_set_lights", name, ncalls + 1>>},
                         Replaced(actions_buf, "_set_lights", name))
           ELSE Reject
        /\ UNCHANGED objects

\* self._objects after add_object(name, path): the geometry is registered
\* once the name and the path have passed the checks
RegisteredFirst(objs, name, valid) == objs \cup {name}
Registered(objs, name, valid) == IF valid THEN objs \cup {name} ELSE objs

add_object ==
    \E name \in Names, valid \in BOOLEAN :
        /\ kind = "Visualizer"
        /\ objects' = Registered(objects, name, valid)
        /\ IF valid
           THEN /\ CanCall
                /\ Queue(UpsertNamed(AppendNamed(actions_buf, "_add_objects",
                                                 name, ncalls + 1),
                                     "_set_transforms", name, ncalls + 1),
                         {<<"_add_objects", name, ncalls + 1>>,
                          <<"_set_transforms", name, ncalls + 1>>},
                         Replaced(actions_buf, "_set_transforms", name))
           ELSE Reject

\* the name is valid and names a registered object
Known(name, valid) == valid /\ name \in objects

set_transform ==
    \E name \in Names, valid \in BOOLEAN :
        /\ kind = "Visualizer"
        /\ IF Known(name, valid)
           THEN /\ CanCall
                /\ Queue(UpsertNamed(actions_buf, "_set_transforms", name,
                                     ncalls + 1),
                         {<<"_set_transforms", name, ncalls + 1>>},
                         Replaced(actions_buf, "_set_transforms", name))
           ELSE Reject
        /\ UNCHANGED objects

set_material ==
    \E name \in Names, valid \in BOOLEAN :
        /\ kind = "Visualizer"
        /\ IF Known(name, valid)
           THEN /\ CanCall
                /\ Queue(UpsertNamed(actions_buf, "_set_materials", name,
                                     ncalls + 1),
                         {<<"_set_materials", name, ncalls + 1>>},
                         Replaced(actions_buf, "_set_materials", name))
           ELSE Reject
        /\ UNCHANGED objects

(***************************************************************************)
(* The transport.                                                          *)
(***************************************************************************)
\* the scene backend's zmq socket closes under the running Visualizer
SocketCloses ==
    /\ kind = "Visualizer"
    /\ ~socket_closed
    /\ socket_closed' = TRUE
    /\ UNCHANGED <<animVars, figVars, projVars, sret,
                   kind, THREADED, LOCK, done, mpc, wpc, ncalls, nterm, ret,
                   frame_delta, elapsed, actions_buf, actions, it, objects,
                   scene, data, shared, need_redraw, inds, artist, raised,
                   issued, superseded, at_term, unchecked>>

(***************************************************************************)
(* Visualizer._main_loop (worker thread).                                  *)
(***************************************************************************)
Slept == IF done THEN unchecked + 1 ELSE 0

\* dt < frame_delta: time.sleep(0.005); continue.  The sleep takes one tick
\* at least
V_FrameWait ==
    /\ kind = "Visualizer" /\ wpc = "frame"
    /\ elapsed < frame_delta
    /\ elapsed' \in (elapsed + 1)..frame_delta
    /\ unchecked' = Slept
    /\ UNCHANGED <<animVars, figVars, projVars, sret,
                   kind, THREADED, LOCK, done, mpc, wpc, ncalls, nterm, ret,
                   frame_delta, socket_closed, actions_buf, actions, it,
                   objects, scene, data, shared, need_redraw, inds, artist,
                   raised, issued, superseded, at_term>>

\* frame time: actions = {}; with self._LOCK:
V_Acquire ==
    /\ kind = "Visualizer" /\ wpc = "frame"
    /\ elapsed >= frame_delta
    /\ LOCK = "free"
    /\ LOCK' = "worker"
    /\ wpc' = "cs"
    /\ actions' = <<>>
    /\ UNCHANGED <<animVars, figVars, projVars, sret,
                   kind, THREADED, done, mpc, ncalls, nterm, ret, frame_delta,
                   elapsed, socket_closed, actions_buf, it, objects, scene,
                   data, shared, need_redraw, inds, artist, raised, issued,
                   superseded, at_term, unchecked>>

\* if self._socket.closed: self._done = True; return -1
V_Closed ==
    /\ kind = "Visualizer" /\ wpc = "cs"
    /\ socket_closed
    /\ done' = TRUE
    /\ LOCK' = "free"
    /\ wpc' = "closed"
    /\ unchecked' = 0
    /\ UNCHANGED <<animVars, figVars, projVars, sret,
                   kind, THREADED, mpc, ncalls, nterm, ret, frame_delta,
                   elapsed, socket_closed, actions_buf, actions, it, objects,
                   scene, data, shared, need_redraw, inds, artist, raised,
                   issued, superseded, at_term>>

\* a worker that returns on done without the last for-loop
V_DoneNoFlush ==
    /\ kind = "Visualizer" /\ wpc = "cs"
    /\ ~socket_closed
    /\ done
    /\ wpc' = "exited"
    /\ LOCK' = "free"
    /\ unchecked' = 0
    /\ UNCHANGED <<animVars, figVars, projVars, sret,
                   kind, THREADED, done, mpc, ncalls, nterm, ret,
                   frame_delta, elapsed, socket_closed, actions_buf, actions,
                   it, objects, scene, data, shared, need_redraw, inds,
                   artist, raised, issued, superseded, at_term>>

\* if self._done: start the last for-loop, over self._actions_buf
V_Done ==
    /\ kind = "Visualizer" /\ wpc = "cs"
    /\ ~socket_closed
    /\ done
    /\ wpc' = "flush"
    /\ it' = 1
    /\ unchecked' = 0
    /\ UNCHANGED <<animVars, figVars, projVars, sret,
                   kind, THREADED, LOCK, done, mpc, ncalls, nterm, ret,
                   frame_delta, elapsed, socket_closed, actions_buf, actions,
                   objects, scene, data, shared, need_redraw, inds, artist,
                   raised, issued, superseded, at_term>>

\* the buffer handed to the worker, and what is left of it
Drained(buf) == buf

\* a drain that copies the actions and leaves them in the buffer
RemainingKept(buf) == buf

Remaining(buf) == <<>>

\* otherwise pop every action of the buffer into actions, release the lock
V_Drain ==
    /\ kind = "Visualizer" /\ wpc = "cs"
    /\ ~socket_closed
    /\ ~done
    /\ actions' = Drained(actions_buf)
    /\ actions_buf' = Remaining(actions_buf)
    /\ LOCK' = "free"
    /\ wpc' = "exec"
    /\ it' = 1
    /\ UNCHANGED <<animVars, figVars, projVars, sret,
                   kind, THREADED, done, mpc, ncalls, nterm, ret, frame_delta,
                   elapsed, socket_closed, objects, scene, data, shared,
                   need_redraw, inds, artist, raised, issued, superseded,
                   at_term, unchecked>>

\* fnc(*args) on the scene backend; sending on a closed zmq socket raises,
\* and nothing in the loop catches it
Execute(dict, onraise) ==
    /\ it <= Len(dict)
    /\ IF socket_closed
       THEN /\ wpc' = "raised"
            /\ LOCK' = onraise
            /\ UNCHANGED <<scene, it>>
       ELSE /\ scene' = scene \o ExecEntry(dict[it])
            /\ it' = it + 1
            /\ UNCHANGED <<wpc, LOCK>>

\* for fnc, args in self._actions_buf.items(): fnc(*args)   (lock held)
V_FlushStep ==
    /\ kind = "Visualizer" /\ wpc = "flush"
    /\ Execute(actions_buf, "free")
    /\ UNCHANGED <<animVars, figVars, projVars, sret,
                   kind, THREADED, done, mpc, ncalls, nterm, ret, frame_delta,
                   elapsed, socket_closed, actions_buf, actions, objects,
                   data, shared, need_redraw, inds, artist, raised, issued,
                   superseded, at_term, unchecked>>

\* return 0
V_FlushEnd ==
    /\ kind = "Visualizer" /\ wpc = "flush"
    /\ it > Len(actions_buf)
    /\ LOCK' = "free"
    /\ wpc' = "exited"
    /\ UNCHANGED <<animVars, figVars, projVars, sret,
                   kind, THREADED, done, mpc, ncalls, nterm, ret, frame_delta,
                   elapsed, socket_closed, actions_buf, actions, it, objects,
                   scene, data, shared, need_redraw, inds, artist, raised,
                   issued, superseded, at_term, unchecked>>

\* for fnc, args in actions.items(): fnc(*args)   (lock released)
V_ExecStep ==
    /\ kind = "Visualizer" /\ wpc = "exec"
    /\ Execute(actions, LOCK)
    /\ UNCHANGED <<animVars, figVars, projVars, sret,
                   kind, THREADED, done, mpc, ncalls, nterm, ret, frame_delta,
                   elapsed, socket_closed, actions_buf, actions, objects,
                   data, shared, need_redraw, inds, artist, raised, issued,
                   superseded, at_term, unchecked>>

\* self._last_refresh = cv2.getTickCount()
V_ExecEnd ==
    /\ kind = "Visualizer" /\ wpc = "exec"
    /\ it > Len(actions)
    /\ elapsed' = 0
    /\ wpc' = "sleep"
    /\ UNCHANGED <<animVars, figVars, projVars, sret,
                   kind, THREADED, LOCK, done, mpc, ncalls, nterm, ret,
                   frame_delta, socket_closed, actions_buf, actions, it,
                   objects, scene, data, shared, need_redraw, inds, artist,
                   raised, issued, superseded, at_term, unchecked>>

\* time.sleep(0.01) at the end of an iteration: two ticks at least
V_Sleep ==
    /\ kind = "Visualizer" /\ wpc = "sleep"
    /\ elapsed' \in Min(elapsed + 2, frame_delta)..frame_delta
    /\ wpc' = "frame"
    /\ unchecked' = Slept
    /\ UNCHANGED <<animVars, figVars, projVars, sret,
                   kind, THREADED, LOCK, done, mpc, ncalls, nterm, ret,
                   frame_delta, socket_closed, actions_buf, actions, it,
                   objects, scene, data, shared, need_redraw, inds, artist,
                   raised, issued, superseded, at_term>>

(***************************************************************************)
(* Lineplot / Barchart mutators (main thread).                             *)
(***************************************************************************)
\* the flagged indices, in order: [i for i, f in enumerate(flags) if f]
RECURSIVE Flagged(_, _)
Flagged(flags, i) ==
    IF i > NArtists THEN <<>>
    ELSE (IF flags[i] THEN <<i>> ELSE <<>>) \o Flagged(flags, i + 1)

\* _redraw_line / _redraw_bar for every flagged artist: the artist takes
\* the stored data and its flag is cleared
RedrawnArtists(arts, flags, dat) ==
    [i \in Artists |-> IF flags[i] THEN dat[i] ELSE arts[i]]

\* store the new data of artist i and flag it; with threaded=False the
\* mutator then redraws before it returns
Mutate(newdata, i, mutator) ==
    /\ CanCall
    /\ data' = newdata
    /\ ncalls' = ncalls + 1
    /\ issued' = issued \cup {<<mutator, i, ncalls + 1>>}
    /\ LET flags == [need_redraw EXCEPT ![i] = TRUE]
       IN IF THREADED
          THEN /\ need_redraw' = flags
               /\ UNCHANGED <<artist, raised>>
          ELSE IF kind = "Lineplot"
          THEN \* self.redraw_plot()
               /\ artist' = RedrawnArtists(artist, flags, newdata)
               /\ need_redraw' = [j \in Artists |-> FALSE]
               /\ UNCHANGED raised
          ELSE \* Barchart has no redraw_plot: AttributeError
               /\ need_redraw' = flags
               /\ raised' = TRUE
               /\ UNCHANGED artist
    /\ UNCHANGED <<animVars, figVars, projVars, sret,
                   kind, THREADED, LOCK, done, mpc, wpc, nterm, ret,
                   frame_delta, elapsed, socket_closed, actions_buf, actions,
                   it, objects, scene, inds, superseded, at_term, unchecked>>

\* self.data['x'][line_ind].append(x_point): the constructor built the
\* per-line lists as [[],]*n_lines, one list object shared by every line
\* that set_data has not given a list of its own
append_point ==
    \E i \in Artists :
        /\ kind = "Lineplot"
        /\ Mutate([j \in Artists |->
                      IF j = i \/ (i \in shared /\ j \in shared)
                      THEN ncalls + 1 ELSE data[j]],
                  i, "append_point")
        /\ UNCHANGED shared

\* self.data['x'][line_ind] = copy(x_data)
set_data ==
    \E i \in Artists :
        /\ kind = "Lineplot"
        /\ Mutate([data EXCEPT ![i] = ncalls + 1], i, "set_data")
        /\ shared' = shared \ {i}

\* self.values[bar_ind] = float(copy(value))
set_value ==
    \E i \in Artists :
        /\ kind = "Barchart"
        /\ Mutate([data EXCEPT ![i] = ncalls + 1], i, "set_value")
        /\ UNCHANGED shared

(***************************************************************************)
(* Figure._drawer_loop, Lineplot._drawer_loop, Barchart._drawer_loop       *)
(* (worker thread).  Every critical section of these loops is one step.    *)
(***************************************************************************)
\* Figure.redraw(): with self._LOCK: self._fig.canvas.draw() ...
F_Redraw ==
    /\ kind = "Figure" /\ wpc = "redraw"
    /\ LOCK = "free"
    /\ LOCK' = "worker"
    /\ wpc' = "drawing"
    /\ UNCHANGED <<animVars, figVars, projVars, sret,
                   kind, THREADED, done, mpc, ncalls, nterm, ret,
                   frame_delta, elapsed, socket_closed, actions_buf, actions,
                   it, objects, scene, data, shared, need_redraw, inds,
                   artist, raised, issued, superseded, at_term, unchecked>>

\* ... self._img = img.copy(): the canvas is drawn, the lock is released
F_Drawn ==
    /\ kind = "Figure" /\ wpc = "drawing"
    /\ LOCK' = "free"
    /\ wpc' = "check"
    /\ UNCHANGED <<animVars, figVars, projVars, sret,
                   kind, THREADED, done, mpc, ncalls, nterm, ret,
                   frame_delta, elapsed, socket_closed, actions_buf, actions,
                   it, objects, scene, data, shared, need_redraw, inds,
                   artist, raised, issued, superseded, at_term, unchecked>>

\* redraw_plot / redraw_chart: read the flags under the lock
P_ReadFlags ==
    /\ kind \in {"Lineplot", "Barchart"} /\ wpc = "redraw"
    /\ LOCK = "free"
    /\ inds' = Flagged(need_redraw, 1)
    /\ it' = 1
    /\ wpc' = "artists"
    /\ UNCHANGED <<animVars, figVars, projVars, sret,
                   kind, THREADED, LOCK, done, mpc, ncalls, nterm, ret,
                   frame_delta, elapsed, socket_closed, actions_buf, actions,
                   objects, scene, data, shared, need_redraw, artist, raised,
                   issued, superseded, at_term, unchecked>>

\* _redraw_line / _redraw_bar of the next index, under the lock
P_RedrawArtist ==
    /\ kind \in {"Lineplot", "Barchart"} /\ wpc = "artists"
    /\ it <= Len(inds)
    /\ LOCK = "free"
    /\ artist' = [artist EXCEPT ![inds[it]] = data[inds[it]]]
    /\ need_redraw' = [need_redraw EXCEPT ![inds[it]] = FALSE]
    /\ it' = it + 1
    /\ UNCHANGED <<animVars, figVars, projVars, sret,
                   kind, THREADED, LOCK, done, mpc, wpc, ncalls, nterm, ret,
                   frame_delta, elapsed, socket_closed, actions_buf, actions,
                   objects, scene, data, shared, inds, raised, issued,
                   superseded, at_term, unchecked>>

\* _set_axes_extents reads the data under the lock; the redraw returns
P_RedrawEnd ==
    /\ kind \in {"Lineplot", "Barchart"} /\ wpc = "artists"
    /\ it > Len(inds)
    /\ LOCK = "free"
    /\ wpc' = "check"
    /\ UNCHANGED <<animVars, figVars, projVars, sret,
                   kind, THREADED, LOCK, done, mpc, ncalls, nterm, ret,
                   frame_delta, elapsed, socket_closed, actions_buf, actions,
                   it, objects, scene, data, shared, need_redraw, inds,
                   artist, raised, issued, superseded, at_term, unchecked>>

\* with self._LOCK: if self._done: break
D_CheckDone ==
    /\ kind # "Visualizer" /\ wpc = "check"
    /\ LOCK = "free"
    /\ wpc' = IF done THEN "exited" ELSE "sleep"
    /\ unchecked' = 0
    /\ UNCHANGED <<animVars, figVars, projVars, sret,
                   kind, THREADED, LOCK, done, mpc, ncalls, nterm, ret,
                   frame_delta, elapsed, socket_closed, actions_buf, actions,
                   it, objects, scene, data, shared, need_redraw, inds,
                   artist, raised, issued, superseded, at_term>>

\* time.sleep(0.01)
D_Sleep ==
    /\ kind # "Visualizer" /\ wpc = "sleep"
    /\ wpc' = "redraw"
    /\ unchecked' = Slept
    /\ UNCHANGED <<animVars, figVars, projVars, sret,
                   kind, THREADED, LOCK, done, mpc, ncalls, nterm, ret,
                   frame_delta, elapsed, socket_closed, actions_buf, actions,
                   it, objects, scene, data, shared, need_redraw, inds,
                   artist, raised, issued, superseded, at_term>>

(***************************************************************************)
(* The Figure whose axes a threaded Lineplot / Barchart draws on.  It has  *)
(* a lock of its own (the subplot's constructor makes a new Lock), so its  *)
(* critical sections are one step.                                         *)
(***************************************************************************)
\* Figure._drawer_loop: redraw() draws the canvas, with the artists as
\* they are, into self._img
Fig_Redraw ==
    /\ fpc = "redraw"
    /\ fpc' = "sleep"
    /\ UNCHANGED <<animVars, projVars, sret, kind, THREADED, LOCK, done, mpc, wpc, ncalls,
                   nterm, ret, frame_delta, elapsed, socket_closed,
                   actions_buf, actions, it, objects, scene, data, shared,
                   need_redraw, inds, artist, raised, issued, superseded,
                   at_term, unchecked>>

\* the done check of the figure's loop, and time.sleep(0.01)
Fig_Sleep ==
    /\ fpc = "sleep"
    /\ fpc' = "redraw"
    /\ UNCHANGED <<animVars, projVars, sret, kind, THREADED, LOCK, done, mpc, wpc, ncalls,
                   nterm, ret, frame_delta, elapsed, socket_closed,
                   actions_buf, actions, it, objects, scene, data, shared,
                   need_redraw, inds, artist, raised, issued, superseded,
                   at_term, unchecked>>

(***************************************************************************)
(* terminate() (main thread).                                              *)
(***************************************************************************)
\* the thread is running: it neither returned ("exited" with 0, "closed"
\* with -1) nor died of an exception ("raised"), and it exists
Alive == wpc \notin {"none", "exited", "closed", "raised"}

\* SIGINT / SIGTERM arrives while the main thread is inside a setter's
\* `with self._LOCK:` block: Python runs _sig_handler on the main thread,
\* between two bytecodes of the setter, and the handler calls terminate(),
\* which waits at its own `with self._LOCK:` for the lock the setter holds
Sig_InSetter ==
    /\ kind = "Visualizer"
    /\ CanCall
    /\ LOCK' = "main"
    /\ mpc' = "sig_lock"
    /\ UNCHANGED <<animVars, figVars, projVars, sret,
                   kind, THREADED, done, wpc, ncalls, nterm, ret, frame_delta,
                   elapsed, socket_closed, actions_buf, actions, it, objects,
                   scene, data, shared, need_redraw, inds, artist, raised,
                   issued, superseded, at_term, unchecked>>

\* terminate() is called; a Figure or subplot with threaded=False returns
TermCall ==
    /\ kind \notin {"Project", "Animator", "AnimatorSetup"}
    /\ mpc = "idle"
    /\ nterm < MaxTerminates
    /\ at_term' = IF nterm = 0 THEN ncalls ELSE at_term
    /\ IF THREADED
       THEN /\ mpc' = "t_lock"
            /\ UNCHANGED <<nterm, ret>>
       ELSE /\ nterm' = nterm + 1
            /\ ret' = Append(ret, "None")
            /\ UNCHANGED mpc
    /\ UNCHANGED <<animVars, figVars, projVars, sret,
                   kind, THREADED, LOCK, done, wpc, ncalls, frame_delta,
                   elapsed, socket_closed, actions_buf, actions, it, objects,
                   scene, data, shared, need_redraw, inds, artist, raised,
                   issued, superseded, unchecked>>

\* a terminate() that goes on to write done without taking the lock
TermAcquireNoLock ==
    /\ mpc = "t_lock"
    /\ mpc' = "t_cs"
    /\ UNCHANGED <<animVars, figVars, projVars, sret,
                   kind, THREADED, LOCK, done, wpc, ncalls, nterm, ret,
                   frame_delta, elapsed, socket_closed, actions_buf, actions,
                   it, objects, scene, data, shared, need_redraw, inds,
                   artist, raised, issued, superseded, at_term, unchecked>>

\* with self._LOCK:
TermAcquire ==
    /\ mpc = "t_lock"
    /\ LOCK = "free"
    /\ LOCK' = "main"
    /\ mpc' = "t_cs"
    /\ UNCHANGED <<animVars, figVars, projVars, sret,
                   kind, THREADED, done, wpc, ncalls, nterm, ret, frame_delta,
                   elapsed, socket_closed, actions_buf, actions, it, objects,
                   scene, data, shared, need_redraw, inds, artist, raised,
                   issued, superseded, at_term, unchecked>>

\* a terminate() that joins the worker while it still holds the lock
TermSetDoneKeepsLock ==
    /\ mpc = "t_cs"
    /\ done' = TRUE
    /\ mpc' = "t_join"
    /\ unchecked' = IF done THEN unchecked ELSE 0
    /\ UNCHANGED <<animVars, figVars, projVars, sret,
                   kind, THREADED, LOCK, wpc, ncalls, nterm, ret, frame_delta,
                   elapsed, socket_closed, actions_buf, actions, it, objects,
                   scene, data, shared, need_redraw, inds, artist, raised,
                   issued, superseded, at_term>>

\* self._done = True, and the lock is released
TermSetDone ==
    /\ mpc = "t_cs"
    /\ done' = TRUE
    /\ LOCK' = "free"
    /\ mpc' = "t_join"
    /\ unchecked' = IF done THEN unchecked ELSE 0
    /\ UNCHANGED <<animVars, figVars, projVars, sret,
                   kind, THREADED, wpc, ncalls, nterm, ret, frame_delta,
                   elapsed, socket_closed, actions_buf, actions, it, objects,
                   scene, data, shared, need_redraw, inds, artist, raised,
                   issued, superseded, at_term>>

\* the return code of Visualizer.terminate
TermCode == IF kind # "Visualizer" THEN "None"
            ELSE IF ~socket_closed THEN "0" ELSE "-1"

\* self._thread.join() returns; the Visualizer then empties its buffer and
\* its objects and, if the socket is still open, deletes the scene and
\* closes the socket
TermJoin ==
    /\ mpc = "t_join"
    /\ ~Alive
    /\ mpc' = "idle"
    /\ nterm' = nterm + 1
    /\ ret' = Append(ret, TermCode)
    /\ IF kind = "Visualizer"
       THEN /\ actions_buf' = <<>>
            /\ objects' = {}
            /\ socket_closed' = TRUE
       ELSE UNCHANGED <<actions_buf, objects, socket_closed>>
    /\ UNCHANGED <<animVars, figVars, projVars, sret,
                   kind, THREADED, LOCK, done, wpc, ncalls, frame_delta,
                   elapsed, actions, it, scene, data, shared, need_redraw,
                   inds, artist, raised, issued, superseded, at_term,
                   unchecked>>

(***************************************************************************)
(* Project (main thread).  Its subsystems are seen through the calls it    *)
(* makes on them and what these return: "0", "-1", None, or "raise" for an *)
(* exception.  step, reset and terminate run to completion in one step;    *)
(* await_keypress and await_anykeys poll in a loop.                        *)
(***************************************************************************)
Call(s, method, out) == <<s, method, out>>

Code(out) == IF out = "-1" THEN -1 ELSE 0

\* ret_code after the calls: the sum of what they returned
RECURSIVE SumCodes(_)
SumCodes(cs) ==
    IF cs = <<>> THEN 0
    ELSE (IF cs[1][1] \in Subsystems \/ cs[1][2] = "refresh_visualizer"
          THEN Code(cs[1][3]) ELSE 0) + SumCodes(Tail(cs))

\* return max(-1, ret_code)
RetCode(cs) == IF SumCodes(cs) >= 0 THEN "0" ELSE "-1"

Raised(cs) == \E k \in 1..Len(cs) : cs[k][3] = "raise"

CanOp ==
    /\ kind = "Project"
    /\ ppc = "idle"
    /\ nops < MaxOps

\* the calls made on the visualizer for n visual data items
RECURSIVE VisualCalls(_)
VisualCalls(n) ==
    IF n = 0 THEN <<>>
    ELSE << Call("visualizer", "add_object", "0"),
            Call("visualizer", "set_transform", "0"),
            Call("visualizer", "set_material", "0") >> \o VisualCalls(n - 1)

\* refresh_visualizer(): -1 without a visualizer, else one add_object,
\* set_transform and set_material per visual data item of the bodies
refresh_visualizer(pres, n) ==
    IF ~pres["visualizer"]
    THEN << <<"project", "refresh_visualizer", "-1">> >>
    ELSE << <<"project", "refresh_visualizer", "0">> >> \o VisualCalls(n)

\* refresh_animator(): -1 without an animator, else animator.refresh()
refresh_animator(pres, out) ==
    IF ~pres["animator"]
    THEN << <<"project", "refresh_animator", "-1">> >>
    ELSE << <<"project", "refresh_animator", out>>,
            Call("animator", "refresh", out) >>

\* Body.apply_force(draw_arrow=True) stages an arrow in the first free (None)
\* slot of the buffer, and appends a slot when none is free
RECURSIVE FirstFree(_, _)
FirstFree(arr, i) ==
    IF i > Len(arr) THEN 0
    ELSE IF arr[i] = None THEN i
    ELSE FirstFree(arr, i + 1)

\* the slots of the buffer that hold an arrow
NStaged(arr) == Cardinality({i \in DOMAIN arr : arr[i] # None})

Staged(arr) ==
    IF FirstFree(arr, 1) = 0 THEN Append(arr, "arrow")
    ELSE [arr EXCEPT ![FirstFree(arr, 1)] = "arrow"]

apply_force ==
    /\ CanOp
    /\ connected
    /\ drawn < MaxArrows
    /\ arrows' = Staged(arrows)
    /\ drawn' = drawn + 1
    /\ UNCHANGED <<kind, animVars, workerVars, cleared, present, connected, running,
                   pressed, ppc, op, nops, calls, pret, timeout, waited>>

\* Body.clear_visual_buffer(): the staged arrows are dropped
clear_visual_buffer(arr) == <<>>

\* Body._get_arr_vis_dat(): every staged arrow is read and its slot freed
get_arr_vis_dat(arr) == [i \in DOMAIN arr |-> None]

\* what refresh_visualizer() leaves in the buffer: cleared without a
\* visualizer, read through body.visual_data with one
StagedKept(pres, arr) == arr
StagedAfterRefresh(pres, arr) ==
    IF ~pres["visualizer"] THEN clear_visual_buffer(arr)
    ELSE get_arr_vis_dat(arr)

\* a step() that refreshes the visualizer whatever the simulator returned
StepAlwaysRefreshes(rc, pres, n) ==
    << Call("simulator", "step", rc) >> \o refresh_visualizer(pres, n)

\* step(): simulator.step(), and refresh_visualizer() if that returned 0
StepCalls(rc, pres, n) ==
    << Call("simulator", "step", rc) >> \o
    (IF rc # "0" THEN <<>> ELSE refresh_visualizer(pres, n))

\* the simulator steps unless its client is disconnected (pybullet.error)
Project_step ==
    \E rc \in (IF connected THEN {"0", "-1"} ELSE {"-1"}),
       n \in 0..MaxVisualData :
        /\ CanOp
        /\ op' = "step"
        /\ nops' = nops + 1
        /\ calls' = StepCalls(rc, present, n)
        /\ pret' = IF rc # "0" THEN "-1" ELSE "0"
        /\ arrows' = IF rc # "0" THEN arrows
                      ELSE StagedAfterRefresh(present, arrows)
        /\ drawn' = IF rc # "0" THEN drawn ELSE 0
        /\ cleared' = IF rc # "0" THEN cleared ELSE NStaged(arrows)
        /\ UNCHANGED <<kind, animVars, workerVars, present, connected, running, pressed,
                       ppc, timeout, waited>>

\* reset(): simulator.reset(); visualizer.reset() and the refresh; then the
\* animator is started if it is not running, and reset if it is
ResetAlwaysStarts(pres, run, n, aout) ==
    << Call("simulator", "reset", "0") >> \o
    (IF pres["visualizer"] THEN << Call("visualizer", "reset", None) >>
     ELSE <<>>) \o
    refresh_visualizer(pres, n) \o
    (IF ~pres["animator"] THEN <<>>
     ELSE << Call("animator", "start", aout) >>)
ResetCalls(pres, run, n, aout) ==
    << Call("simulator", "reset", "0") >> \o
    (IF pres["visualizer"] THEN << Call("visualizer", "reset", None) >>
     ELSE <<>>) \o
    refresh_visualizer(pres, n) \o
    (IF ~pres["animator"] THEN <<>>
     ELSE IF ~run THEN << Call("animator", "start", aout) >>
     ELSE << Call("animator", "reset", "0") >>)

\* animator.is_running(): whether the animator is started
is_running == running

\* Animator.start() returns 0, or raises RuntimeError when the figure or a
\* subplot cannot be built
Project_reset ==
    \E n \in 0..MaxVisualData, aout \in {"0", "raise"} :
        /\ CanOp
        /\ op' = "reset"
        /\ nops' = nops + 1
        /\ calls' = ResetCalls(present, is_running, n, aout)
        /\ pret' = IF Raised(calls') THEN "raise" ELSE RetCode(calls')
        /\ running' = IF present["animator"] /\ ~is_running
                      THEN aout = "0" ELSE running
        /\ arrows' = StagedAfterRefresh(present, arrows)
        /\ drawn' = 0
        /\ cleared' = NStaged(arrows)
        /\ UNCHANGED <<kind, animVars, workerVars, present, connected, pressed, ppc,
                       timeout, waited>>

\* a terminate() that tears the visualizer down before the simulator
TerminateOrderSwapped ==
    <<"visualizer", "simulator", "animator", "keyboard">>

\* the order in which terminate() goes through the subsystems
TerminateOrder == <<"simulator", "visualizer", "animator", "keyboard">>

\* the terminate() calls made from position i of the order on: the
\* simulator's always, another subsystem's if its reference is not None;
\* an exception leaves terminate() at once
RECURSIVE Cascade(_, _, _)
Cascade(pres, outs, i) ==
    IF i > Len(TerminateOrder) THEN <<>>
    ELSE LET s == TerminateOrder[i]
         IN IF s # "simulator" /\ ~pres[s] THEN Cascade(pres, outs, i + 1)
            ELSE IF outs[s] = "raise" THEN << Call(s, "terminate", "raise") >>
            ELSE << Call(s, "terminate", outs[s]) >>
                 \o Cascade(pres, outs, i + 1)

\* what each subsystem's terminate() can do: the simulator returns 0 if
\* its client is connected and -1 if not; the visualizer returns 0, or -1
\* on a closed socket, or raises when the socket closes between its check
\* and scene.delete(); the animator catches what its teardown raises and
\* returns 0; the keyboard returns 0 or -1
TerminateOutcomes(conn) ==
    {outs \in [Subsystems -> {"0", "-1", "raise"}] :
        /\ outs["simulator"] = (IF conn THEN "0" ELSE "-1")
        /\ outs["animator"] = "0"
        /\ outs["keyboard"] # "raise"}

\* the reference of s is set to None right after its terminate() returned;
\* self.simulator is never set to None
Nulled(cs, s) ==
    /\ s # "simulator"
    /\ \E k \in 1..Len(cs) : cs[k][1] = s /\ cs[k][3] # "raise"

Project_terminate ==
    \E outs \in TerminateOutcomes(connected) :
        /\ CanOp
        /\ op' = "terminate"
        /\ nops' = nops + 1
        /\ calls' = Cascade(present, outs, 1)
        /\ pret' = IF Raised(calls') THEN "raise" ELSE RetCode(calls')
        /\ present' = [s \in Subsystems |-> present[s] /\ ~Nulled(calls', s)]
        /\ connected' = FALSE
        /\ running' = (running /\ ~Nulled(calls', "animator"))
        /\ UNCHANGED <<kind, animVars, workerVars, arrows, drawn, cleared, pressed, ppc, timeout, waited>>

\* whose _sig_handler is installed for SIGINT / SIGTERM once the Project is
\* constructed: signal.signal() replaces the handler, the Project installs
\* its own first and then constructs the visualizer and the animator, each
\* of which installs its own
SigOwner(pres) ==
    IF pres["animator"] THEN "animator"
    ELSE IF pres["visualizer"] THEN "visualizer"
    ELSE "project"

\* SIGINT / SIGTERM arrives at a live Project: the installed handler runs,
\* Project.terminate() if it is the Project's, else the terminate() of the
\* one subsystem that owns it, and the Project's references stay
Signal ==
    \E outs \in TerminateOutcomes(connected) :
        /\ CanOp
        /\ connected
        /\ op' = "signal"
        /\ nops' = nops + 1
        /\ calls' = IF SigOwner(present) = "project"
                     THEN Cascade(present, outs, 1)
                     ELSE << Call(SigOwner(present), "terminate",
                                  outs[SigOwner(present)]) >>
        /\ pret' = IF Raised(calls') THEN "raise" ELSE RetCode(calls')
        /\ present' = IF SigOwner(present) = "project"
                       THEN [s \in Subsystems |->
                                present[s] /\ ~Nulled(calls', s)]
                       ELSE present
        /\ connected' = (SigOwner(present) # "project")
        /\ running' = (running /\ SigOwner(present) = "visualizer")
        /\ UNCHANGED <<kind, animVars, workerVars, arrows, drawn, cleared,
                       pressed, ppc, timeout, waited>>

\* the keyboard's listener thread sees the awaited key go down or up
KeyChanges ==
    /\ kind = "Project"
    /\ present["keyboard"]
    /\ pressed' = ~pressed
    /\ UNCHANGED <<kind, animVars, workerVars, arrows, drawn, cleared, present, connected, running, ppc, op,
                   nops, calls, pret, timeout, waited>>

\* an await_* that goes on to poll whether or not there is a keyboard
AwaitUnguarded(pres) == TRUE

\* if self.keyboard is None: raise(AttributeError(...))
HasKeyboard(pres) == pres["keyboard"]

\* await_keypress(key_str, timeout) / await_anykeys(timeout) is called
Await(which) ==
    \E t \in {NoTimeout} \cup 0..MaxTimeout :
        /\ CanOp
        /\ op' = which
        /\ nops' = nops + 1
        /\ calls' = <<>>
        /\ IF ~HasKeyboard(present)
           THEN /\ pret' = "AttributeError"
                /\ UNCHANGED <<ppc, timeout, waited>>
           ELSE /\ pret' = None
                /\ ppc' = "poll"
                /\ timeout' = t
                /\ waited' = 0
        /\ UNCHANGED <<kind, animVars, workerVars, arrows, drawn, cleared, present, connected, running, pressed>>

await_keypress == Await("await_keypress")

await_anykeys == Await("await_anykeys")

\* one pass of the while True: the deadline, the keyboard, the refreshes
A_Poll ==
    /\ kind = "Project" /\ ppc = "poll"
    /\ IF timeout # NoTimeout /\ waited > timeout
       THEN /\ pret' = IF op = "await_keypress" THEN "-1" ELSE "[]"
            /\ ppc' = "idle"
            /\ UNCHANGED calls
       ELSE IF pressed
       THEN /\ pret' = IF op = "await_keypress" THEN "0" ELSE "[key]"
            /\ ppc' = "idle"
            /\ UNCHANGED calls
       ELSE \E n \in 0..MaxVisualData, aout \in {"0", "-1"} :
            /\ calls' = refresh_visualizer(present, n)
                        \o refresh_animator(present, aout)
            /\ ppc' = "psleep"
            /\ UNCHANGED pret
    /\ UNCHANGED <<kind, animVars, workerVars, arrows, drawn, cleared, present, connected, running, pressed,
                   op, nops, timeout, waited>>

\* a sleep during which the clock does not advance
SleepNoTime(w) == {w}

\* time.sleep(0.01): one sleep at least has passed when it returns
SleepTime(w) == {Min(w + d, MaxTimeout + 1) : d \in 1..2}

A_Sleep ==
    /\ kind = "Project" /\ ppc = "psleep"
    /\ waited' \in SleepTime(waited)
    /\ ppc' = "poll"
    /\ UNCHANGED <<kind, animVars, workerVars, arrows, drawn, cleared, present, connected, running, pressed,
                   op, nops, calls, pret, timeout>>

(***************************************************************************)
(* Animator.  Time is the tick counter of cv2.getTickCount(); the          *)
(* instance was given a Lineplot and then a Barchart, each redrawn by its   *)
(* own drawer thread.                                                      *)
(***************************************************************************)
PlotKind(i) == Plots[i]

CeilDiv(a, b) == (a + b - 1) \div b

Clip(x, lo, hi) == IF x < lo THEN lo ELSE IF x > hi THEN hi ELSE x

Abs(x) == IF x < 0 THEN 0 - x ELSE x

\* cap_t: the capture ticks, counted from the first capture
CapT(times) == [i \in 1..Len(times) |-> times[i] - times[1]]

\* min(np.diff(cap_t)), in ticks
MinDt(cap_t) ==
    LET D == {cap_t[i + 1] - cap_t[i] : i \in 1..(Len(cap_t) - 1)}
    IN  CHOOSE d \in D : \A e \in D : d <= e

\* np.ceil(max_fps / 5.0) * 5.0, with max_fps = TickFrequency / min_dt
RoundUpFloor(min_dt) == FpsStep * (TickFrequency \div (FpsStep * min_dt))
RoundUp(min_dt) == FpsStep * CeilDiv(TickFrequency, FpsStep * min_dt)

VidFps(min_dt) == Clip(RoundUp(min_dt), MinFps, MaxFps)

\* len(np.arange(0.0, max(cap_t), 1.0 / vid_fps)); slot k is at k / vid_fps
NSlots(cap_t, fps) == CeilDiv(cap_t[Len(cap_t)] * fps, TickFrequency)

\* |t - vid_frame_times[k]| for the capture at tick c, scaled by
\* TickFrequency * fps (slots are numbered from 1 here, from 0 in the code)
Dist(c, fps, k) == Abs(c * fps - (k - 1) * TickFrequency)

\* np.argmin scanning the slots from k on: best is the first slot with the
\* smallest distance so far
RECURSIVE ArgMinFrom(_, _, _, _, _)
ArgMinFrom(c, fps, n, k, best) ==
    IF k > n THEN best
    ELSE ArgMinFrom(c, fps, n, k + 1,
                    IF Dist(c, fps, k) < Dist(c, fps, best) THEN k ELSE best)

\* np.argmin(abs(t - vid_frame_times)): the first nearest slot
NearestSlot(c, fps, n) == ArgMinFrom(c, fps, n, 2, 1)

\* cap_frame_idxs: the slot of each capture
Slots(cap_t, fps, n) ==
    [i \in 1..Len(cap_t) |-> NearestSlot(cap_t[i], fps, n)]

\* for i, cap_frame_idx in enumerate(cap_frame_idxs):
\*     vid_frames[cap_frame_idx] = self._frames[i]
RECURSIVE PlaceFrom(_, _, _)
PlaceFrom(vid, idxs, i) ==
    IF i > Len(idxs) THEN vid
    ELSE PlaceFrom([vid EXCEPT ![idxs[i]] = i], idxs, i + 1)

\* vid_frames after the captures are placed: the capture in each slot
\* (a later capture overwrites an earlier one), 0 for None
Placed(cap_t, fps, n) ==
    PlaceFrom([k \in 1..n |-> 0], Slots(cap_t, fps, n), 1)

\* for i in range(len(vid_frame_times)): a filled slot becomes
\* prev_cap_frame, an empty slot takes prev_cap_frame
RECURSIVE HoldFrom(_, _, _)
HoldFrom(vid, i, prev) ==
    IF i > Len(vid) THEN vid
    ELSE IF vid[i] # 0 THEN HoldFrom(vid, i + 1, vid[i])
    ELSE HoldFrom([vid EXCEPT ![i] = prev], i + 1, prev)

\* vid_frames after the empty slots take the previous slot's capture
HeldNoCarry(placed) == placed
Held(placed) == HoldFrom(placed, 1, placed[1])

\* _get_fps_and_frames followed by _make_video: the frame rate, the capture
\* shown in each slot, the image of each slot, and the capture ticks
SaveRecording(frms, times) ==
    LET cap_t == CapT(times)
        fps == VidFps(MinDt(cap_t))
        idx == Held(Placed(cap_t, fps, NSlots(cap_t, fps)))
    IN  [fps |-> fps, idx |-> idx, cap_t |-> cap_t,
         images |-> [k \in 1..Len(idx) |->
                       IF idx[k] = 0 THEN None ELSE frms[idx[k]]]]

\* the main thread may make another Animator call: the clock and the
\* capture list have room for what the call's refresh does
CanAnimate ==
    /\ kind = "Animator"
    /\ now < MaxTick
    /\ Len(frames) < MaxCaptures

\* dt >= self.frame_delta
RendersAlways == TRUE
Renders == now - last_refresh >= frame_delta

\* self._frames.append(...), self._frame_times.append(...)
CaptureReplaces(lst, x) == <<x>>
Capture(lst, x) == Append(lst, x)

\* refresh(), called with self._started = st: below frame_delta it only
\* waits in cv2.waitKey(1); otherwise it shows the figure's image, waits,
\* stamps _last_refresh and, when recording, captures the image and the
\* stamp.  Without a figure the rendering raises inside the try.
Refresh(st) ==
    IF ~Renders
    THEN /\ now' = now + 1
         /\ UNCHANGED <<last_refresh, frames, frame_times, nshown>>
    ELSE IF ~st
    THEN UNCHANGED <<now, last_refresh, frames, frame_times, nshown>>
    ELSE /\ nshown' = nshown + 1
         /\ now' = now + 1
         /\ last_refresh' = now + 1
         /\ IF record
            THEN /\ frames' = Capture(frames, image)
                 /\ frame_times' = Capture(frame_times, now + 1)
            ELSE UNCHANGED <<frames, frame_times>>

RefreshCode(st) == IF Renders /\ ~st THEN "-1" ELSE "0"

\* time passes between the calls of the main thread
Tick ==
    /\ kind = "Animator"
    /\ now < MaxTick
    /\ now' = now + 1
    /\ UNCHANGED <<kind, workerVars, projVars, setupVars, tlog, record, started, last_refresh,
                   frames, frame_times, image, plot_data, plot_dirty, acalls,
                   video, aret, nshown>>

\* the drawer thread of subplot i redraws it into the figure's image
Animator_Draw ==
    /\ kind = "Animator" /\ started
    /\ \E i \in PlotIds :
        /\ plot_dirty[i]
        /\ plot_dirty' = [plot_dirty EXCEPT ![i] = FALSE]
        /\ image' = [image EXCEPT ![i] = plot_data[i]]
    /\ UNCHANGED <<kind, workerVars, projVars, setupVars, tlog, record, started, now,
                   last_refresh, frames, frame_times, plot_data, acalls,
                   video, aret, nshown>>

\* self._plots before the Animator under study was ever terminated: the
\* subplots added before start(); none after terminate()
RegCount == IF plot_data[1] = NoPlot THEN 0 ELSE Len(Plots)

\* a teardown that saves the recording before it terminates the threads
TeardownSavesFirst(n, nbuilt, figbuilt, saves) ==
    (IF saves THEN << <<"save", "0">> >> ELSE <<>>)
    \o [i \in 1..n |-> <<"subplot", IF i <= nbuilt THEN "joined" ELSE "raise">>]
    \o << <<"figure", IF figbuilt THEN "joined" ELSE "raise">> >>

\* the teardown of terminate(): each subplot's terminate() in a try (a
\* subplot that was built joins its thread; one that was not is None and
\* the call raises), the figure's likewise, then _save_recording()
TeardownLog(n, nbuilt, figbuilt, saves) ==
    [i \in 1..n |-> <<"subplot", IF i <= nbuilt THEN "joined" ELSE "raise">>]
    \o << <<"figure", IF figbuilt THEN "joined" ELSE "raise">> >>
    \o (IF saves THEN << <<"save", "0">> >> ELSE <<>>)

\* the "Reset locals" block of terminate()
LocalsKept(f) == f
Locals(f) == <<>>

\* terminate() with the first nbuilt subplots built: the subplots and the
\* figure are terminated inside try / except, the recording is saved when
\* there is more than one capture, and the locals are reset
Terminate(nbuilt, figbuilt) ==
    /\ tlog' = TeardownLog(RegCount, nbuilt, figbuilt,
                           record /\ Len(frames) > 1)
    /\ video' = IF record /\ Len(frames) > 1
                THEN SaveRecording(frames, frame_times) ELSE video
    /\ frames' = Locals(frames)
    /\ frame_times' = Locals(frame_times)
    /\ plot_data' = [i \in PlotIds |-> NoPlot]
    /\ plot_dirty' = [i \in PlotIds |-> FALSE]
    /\ image' = [i \in PlotIds |-> 0]
    /\ started' = FALSE
    /\ last_refresh' = now

\* start(): -1 if started; else the figure and then the subplots are built,
\* and if building fails (fail = the subplot it fails at, or past the last
\* for the figure) start() calls terminate() and raises RuntimeError
Animator_start ==
    \E fail \in 0..(Len(Plots) + 1) :
        /\ CanAnimate
        /\ IF started
           THEN /\ aret' = "-1"
                /\ UNCHANGED <<started, now, last_refresh, frames,
                               frame_times, nshown, image, plot_data,
                               plot_dirty, video, tlog>>
           ELSE IF fail = 0 \/ (fail <= Len(Plots) /\ fail > RegCount)
           THEN /\ started' = TRUE
                /\ Refresh(TRUE)
                /\ aret' = "0"
                /\ UNCHANGED <<image, plot_data, plot_dirty, video, tlog>>
           ELSE /\ Terminate(IF fail > Len(Plots) THEN 0 ELSE fail - 1,
                             fail <= Len(Plots))
                /\ aret' = "raise"
                /\ UNCHANGED <<now, nshown>>
        /\ UNCHANGED <<kind, workerVars, projVars, setupVars, record, acalls>>

Animator_refresh ==
    /\ CanAnimate
    /\ Refresh(started)
    /\ aret' = RefreshCode(started)
    /\ UNCHANGED <<kind, workerVars, projVars, setupVars, tlog, record, started, image,
                   plot_data, plot_dirty, acalls, video>>

(***************************************************************************)
(* The Animator before start(): subplots are added and artist ids handed   *)
(* out.  An id is the hex string of 16 * subplot index + artist index; a   *)
(* hex string is the sequence of its digits, most significant first.       *)
(***************************************************************************)
\* hex(n)
RECURSIVE Hex(_)
Hex(n) == IF n < HexBase THEN <<n>>
          ELSE Append(Hex(n \div HexBase), n % HexBase)

\* int(s, 16)
RECURSIVE ParseHex(_)
ParseHex(s) ==
    IF Len(s) = 0 THEN 0
    ELSE HexBase * ParseHex(SubSeq(s, 1, Len(s) - 1)) + s[Len(s)]

\* _assert_n_artists_valid: an int between 1 and 16
n_artists_valid(n) == ~(n <= 0 \/ n >= HexBase + 1)

\* _assert_can_add_subplot
can_add_subplot(pl) == ~(Len(pl) >= PlotLimit)

\* the ids of the artists of the subplot added last
ArtistIds(ind, n) == [a \in 1..n |-> Hex(HexBase * ind + (a - 1))]

\* add_lineplot / add_barchart: the same checks and the same registration;
\* subplots are added with non-increasing numbers of artists
AddSubplot(n) ==
    /\ kind = "AnimatorSetup"
    /\ n_artists_valid(n) /\ plots # <<>> => n <= plots[Len(plots)]
    /\ IF ~n_artists_valid(n)
       THEN /\ adderr' = "ValueError"
            /\ UNCHANGED <<plots, ids>>
       ELSE IF ~can_add_subplot(plots)
       THEN /\ adderr' = "RuntimeError"
            /\ UNCHANGED <<plots, ids>>
       ELSE /\ plots' = Append(plots, n)
            /\ ids' = ArtistIds(Len(plots), n)
            /\ adderr' = "ok"
    /\ UNCHANGED <<kind, workerVars, projVars, tlog, record, started, now,
                   last_refresh, frames, frame_times, image, plot_data,
                   plot_dirty, acalls, video, aret, nshown>>

add_lineplot == \E n_lines \in ArtistCounts : AddSubplot(n_lines)

add_barchart == \E n_bars \in ArtistCounts : AddSubplot(n_bars)

\* _is_valid_id: int(id, 16) does not raise, and gives 0 to 255
is_valid_id(id) ==
    /\ \A k \in DOMAIN id : id[k] \in 0..(HexBase - 1)
    /\ ~(ParseHex(id) < 0 \/ ParseHex(id) > MaxId)

\* _is_subplot_ind: the id's subplot is registered
is_subplot_ind(pl, id) == ParseHex(id) \div HexBase < Len(pl)

\* _artist_ind_ok: the id's artist is one of its subplot's
artist_ind_ok(pl, id) ==
    ParseHex(id) % HexBase < pl[ParseHex(id) \div HexBase + 1]

\* the lifecycle guard of the mutators and of reset_all
GuardSkipped == TRUE
Guard == started

\* self._plots of the Animator under study, as the number of artists of
\* each subplot: one artist each, and none after terminate()
RegPlots == IF plot_data[1] = NoPlot THEN <<>> ELSE [i \in PlotIds |-> 1]

\* the artist ids tried: the first artist of each subplot, an artist and a
\* subplot that do not exist, a number above 255 and a string that is no
\* hex number
IdInputs == {Hex(0), Hex(HexBase), Hex(1), Hex(2 * HexBase), Hex(MaxId + 1),
             <<HexBase>>}

\* _sanitize_barchart / _sanitize_lineplot: _is_valid_id first; then
\* _is_subplot_ind, _is_barchart / _is_lineplot and _artist_ind_ok are all
\* evaluated, and the last two index self._plots with the id's subplot
Sanitize(pl, pk, id) ==
    IF ~is_valid_id(id) THEN "reject"
    ELSE IF ~is_subplot_ind(pl, id) THEN "raise"
    ELSE IF \/ PlotKind(ParseHex(id) \div HexBase + 1) # pk
            \/ ~artist_ind_ok(pl, id)
    THEN "reject"
    ELSE "ok"

\* barchart_set_value / lineplot_append_point / lineplot_set_data with
\* artist id `id`; valid: the values pass _is_number
AnimMutate(pk, id, valid) ==
    /\ CanAnimate
    /\ acalls < MaxAnimCalls
    /\ acalls' = acalls + 1
    /\ IF ~Guard
       THEN /\ aret' = "-1"
            /\ UNCHANGED <<plot_data, plot_dirty, now, last_refresh, frames,
                           frame_times, nshown>>
       ELSE IF Sanitize(RegPlots, pk, id) = "raise"
       THEN /\ aret' = "raise"
            /\ UNCHANGED <<plot_data, plot_dirty, now, last_refresh, frames,
                           frame_times, nshown>>
       ELSE IF Sanitize(RegPlots, pk, id) = "reject" \/ ~valid
       THEN /\ aret' = "-1"
            /\ UNCHANGED <<plot_data, plot_dirty, now, last_refresh, frames,
                           frame_times, nshown>>
       ELSE LET i == ParseHex(id) \div HexBase + 1
            IN /\ plot_data' = [plot_data EXCEPT ![i] = acalls + 1]
               /\ plot_dirty' = [plot_dirty EXCEPT ![i] = TRUE]
               /\ Refresh(started)
               /\ aret' = "0"
    /\ UNCHANGED <<kind, workerVars, projVars, setupVars, tlog, record, started, image, video>>

barchart_set_value ==
    \E id \in IdInputs, valid \in BOOLEAN : AnimMutate("Barchart", id, valid)

lineplot_append_point ==
    \E id \in IdInputs, valid \in BOOLEAN : AnimMutate("Lineplot", id, valid)

lineplot_set_data ==
    \E id \in IdInputs, valid \in BOOLEAN : AnimMutate("Lineplot", id, valid)

\* the subplots reset_all reaches: Lineplot.reset_data works, and
\* Barchart.reset_data raises AttributeError on self.option before it
\* resets a bar, which ends the loop
Bars == {i \in PlotIds : PlotKind(i) = "Barchart" /\ plot_data[i] # NoPlot}
ResetReached ==
    {i \in PlotIds : /\ PlotKind(i) = "Lineplot" /\ plot_data[i] # NoPlot
                     /\ \A b \in Bars : i < b}

reset_all ==
    /\ CanAnimate
    /\ acalls < MaxAnimCalls
    /\ acalls' = acalls + 1
    /\ IF ~Guard
       THEN /\ aret' = "-1"
            /\ UNCHANGED <<plot_data, plot_dirty, now, last_refresh, frames,
                           frame_times, nshown>>
       ELSE /\ plot_data' = [i \in PlotIds |->
                               IF i \in ResetReached THEN 0 ELSE plot_data[i]]
            /\ plot_dirty' = [i \in PlotIds |->
                                plot_dirty[i] \/ i \in ResetReached]
            /\ IF Bars # {}
               THEN /\ aret' = "raise"
                    /\ UNCHANGED <<now, last_refresh, frames, frame_times,
                                   nshown>>
               ELSE /\ Refresh(started)
                    /\ aret' = "0"
    /\ UNCHANGED <<kind, workerVars, projVars, setupVars, tlog, record, started, image, video>>

\* terminate() returns 0 whatever the teardown met
Animator_terminate ==
    /\ kind = "Animator"
    /\ Terminate(IF started THEN RegCount ELSE 0, started)
    /\ aret' = "0"
    /\ UNCHANGED <<kind, workerVars, projVars, setupVars, record, now, acalls,
                   nshown>>

(***************************************************************************)
(* The specifications.                                                     *)
(***************************************************************************)
VWorker == V_FrameWait \/ V_Acquire \/ V_Closed \/ V_Done \/ V_Drain
           \/ V_FlushStep \/ V_FlushEnd \/ V_ExecStep \/ V_ExecEnd \/ V_Sleep

DWorker == F_Redraw \/ F_Drawn \/ P_ReadFlags \/ P_RedrawArtist \/ P_RedrawEnd
           \/ D_CheckDone \/ D_Sleep

Next ==
    \/ set_grid \/ set_cam_zoom \/ set_light \/ add_object
    \/ set_transform \/ set_material
    \/ append_point \/ set_data \/ set_value
    \/ TermCall \/ TermAcquire \/ TermSetDone \/ TermJoin
    \/ Sig_InSetter
    \/ V_FrameWait \/ V_Acquire \/ V_Closed \/ V_Done \/ V_Drain
    \/ V_FlushStep \/ V_FlushEnd \/ V_ExecStep \/ V_ExecEnd \/ V_Sleep
    \/ F_Redraw \/ F_Drawn \/ P_ReadFlags \/ P_RedrawArtist \/ P_RedrawEnd
    \/ D_CheckDone \/ D_Sleep
    \/ Fig_Redraw \/ Fig_Sleep
    \/ SocketCloses
    \/ apply_force
    \/ add_lineplot \/ add_barchart
    \/ Project_step \/ Project_reset \/ Project_terminate \/ Signal
    \/ await_keypress \/ await_anykeys \/ A_Poll \/ A_Sleep \/ KeyChanges
    \/ Tick
    \/ Animator_Draw
    \/ Animator_start
    \/ Animator_refresh
    \/ barchart_set_value
    \/ lineplot_append_point
    \/ lineplot_set_data
    \/ reset_all
    \/ Animator_terminate

Spec == Init /\ [][Next]_vars

(***************************************************************************)
(* Fair scheduling: a thread that can take a step takes one, and a thread  *)
(* waiting for the lock gets it when it is released again and again (the   *)
(* workers sleep with the lock released in every iteration).               *)
(***************************************************************************)
Fairness ==
    /\ WF_vars(VWorker)
    /\ WF_vars(DWorker)
    /\ WF_vars(TermSetDone)
    /\ WF_vars(TermJoin)
    /\ SF_vars(TermAcquire)

FairSpec == Spec /\ Fairness

\* the main thread inside await_* goes on polling and sleeping
AwaitFairness ==
    /\ WF_vars(A_Poll)
    /\ WF_vars(A_Sleep)

FairAwaitSpec == Spec /\ AwaitFairness

(***************************************************************************)
(* Properties.                                                             *)
(***************************************************************************)
Executed == {scene[k] : k \in 1..Len(scene)}

ExecCount(a) == Cardinality({k \in 1..Len(scene) : scene[k] = a})

\* the call that most recently queued an action for (fnc, name)
Latest(fnc, name) ==
    CHOOSE id \in 0..MaxCalls :
        /\ <<fnc, name, id>> \in issued
        /\ \A a \in issued : (a[1] = fnc /\ a[2] = name) => a[3] <= id

UniqueKeys(dict) ==
    \A i, j \in 1..Len(dict) : dict[i].fnc = dict[j].fnc => i = j

UniqueNames(dict) ==
    \A i \in 1..Len(dict) :
        dict[i].fnc # "_add_objects" =>
            \A j, k \in 1..Len(dict[i].args) :
                dict[i].args[j][1] = dict[i].args[k][1] => j = k

\* C1: the buffer, and so every batch a drain hands to the worker, holds at
\* most one action per key (per setter, and per name within set_transform,
\* set_material and the light setters), and the buffered action of a key is
\* the one of the most recent call for that key.
C1_Coalescing ==
    kind = "Visualizer" =>
        /\ UniqueKeys(actions_buf) /\ UniqueNames(actions_buf)
        /\ UniqueKeys(actions) /\ UniqueNames(actions)
        /\ \A a \in ActsFrom(actions_buf, 1) :
               a[1] # "_add_objects" => a[3] = Latest(a[1], a[2])

\* a drained batch holds the action of a call that replaced a pending one
C1_Witness ==
    /\ wpc = "exec"
    /\ \E a \in superseded, b \in ActsFrom(actions, 1) :
           a[3] > 0 /\ b[1] = a[1] /\ b[2] = a[2] /\ b[3] > a[3]

\* the first terminate() has returned 0: the transport stayed open
FirstTerminateOk == kind = "Visualizer" /\ nterm >= 1 /\ ret[1] = "0"

\* C2 as stated: every action queued by a call made before terminate() was
\* invoked has been executed when terminate() returns.
C2_EveryActionExecuted ==
    FirstTerminateOk =>
        \A a \in issued : a[3] <= at_term => a \in Executed

\* C2 as amended: every such action has been executed, unless a later call
\* for the same key replaced it while it was pending.
C2_ShutdownFlush ==
    FirstTerminateOk =>
        \A a \in issued : a[3] <= at_term => a \in Executed \cup superseded

\* terminate() returned 0 after a call's action that nothing replaced
C2_Witness ==
    /\ FirstTerminateOk
    /\ \E a \in issued \ superseded : a[3] >= 1 /\ a[3] <= at_term

\* C3: when terminate() of a threaded Lineplot or Barchart has returned (and
\* no mutator was called since), every artist that a mutator changed has
\* its dirty flag cleared and holds the stored data.
C3_PlotShutdownFlush ==
    (kind \in {"Lineplot", "Barchart"} /\ THREADED /\ nterm >= 1
     /\ ncalls = at_term) =>
        \A a \in issued : ~need_redraw[a[2]] /\ artist[a[2]] = data[a[2]]

\* C4: under fair scheduling a terminate() that was called returns (caller
\* and worker do not deadlock over the lock and the join), and when it
\* returns from the join the worker thread is not alive.
C4_TerminateReturns ==
    /\ (mpc \in {"t_lock", "t_cs", "t_join"}) ~> (mpc = "idle")
    /\ [][(mpc = "t_join" /\ mpc' = "idle") => ~Alive']_vars


\* a terminate() returned after the worker left its loop on the done flag
C4_Witness == THREADED /\ nterm >= 1 /\ mpc = "idle" /\ wpc = "exited"

\* C5: a second terminate() reports the same success as the first.
C5_SecondTerminateSucceeds ==
    (nterm >= 2 /\ ret[1] \in {"0", "None"}) => ret[2] = ret[1]

\* the actions that are still to be executed
Pending ==
    IF wpc = "flush" THEN ActsFrom(actions_buf, it)
    ELSE IF wpc = "exited" THEN {}
    ELSE ActsFrom(actions_buf, 1) \cup
         (IF wpc = "exec" THEN ActsFrom(actions, it) ELSE {})

\* C6: a non-final drain empties the buffer into the batch in one critical
\* section and releases the lock before anything is executed; the batch is
\* executed with the lock released; no action is executed twice; and while
\* the transport is open every queued action is in exactly one place:
\* replaced by a later call, still to be executed, or executed once.
C6_ExactlyOnce ==
    /\ [](kind = "Visualizer" =>
            /\ wpc = "exec" =>
                 /\ LOCK # "worker"
                 /\ ActsFrom(actions_buf, 1) \cap ActsFrom(actions, 1) = {}
            /\ \A a \in issued : ExecCount(a) <= 1
            /\ ~socket_closed =>
                 \A a \in issued :
                    /\ (a \in superseded) # (a \in Pending \cup Executed)
                    /\ ~(a \in Pending /\ a \in Executed))
    /\ [][(wpc = "cs" /\ wpc' = "exec") =>
             /\ actions' = actions_buf
             /\ actions_buf' = <<>>
             /\ LOCK' = "free"
             /\ scene' = scene]_vars

\* a second batch is executing (the default for the same key was executed
\* by an earlier one) while the action of a call made since its drain waits
\* in the buffer
C6_Witness ==
    /\ wpc = "exec" /\ ~socket_closed
    /\ \E a \in ActsFrom(actions, it) :
           a[3] >= 1 /\ <<a[1], a[2], 0>> \in Executed
    /\ ActsFrom(actions_buf, 1) # {}

\* C7: at most one pending add action per object name.
C7_AddReplaces ==
    \A i \in 1..Len(actions_buf) :
        \A j, k \in 1..Len(actions_buf[i].args) :
            actions_buf[i].args[j][1] = actions_buf[i].args[k][1] => j = k

\* C8: done never goes back to False, and each write to it (terminate()'s,
\* and the worker's on a closed socket) is made by the thread that holds
\* the lock.
C8_DoneUnderLock ==
    [][/\ done => done'
       /\ (mpc = "t_cs" /\ mpc' # mpc) => LOCK = "main"
       /\ (wpc = "cs" /\ wpc' = "closed") => LOCK = "worker"
       /\ (done' # done) => \/ mpc = "t_cs" /\ LOCK = "main"
                            \/ wpc = "cs" /\ LOCK = "worker"]_vars

\* done was written twice by terminate() and is still True
C8_Witness == done /\ nterm >= 2

\* C9: the worker never dies of an exception, and once the socket is closed
\* a worker that has ended has set done.
C9_TransportFailure ==
    kind = "Visualizer" =>
        /\ wpc # "raised"
        /\ (socket_closed /\ ~Alive) => done

\* C10: after done is set the worker completes at most one sleep before it
\* checks the flag.
C10_OneSleep == unchecked <= 1

\* C11: the worker holds no lock while it executes a scene action (a drained
\* one, or one of the final flush) or draws the figure's canvas.
C11_NoLockWhileDrawing ==
    ~(/\ LOCK = "worker"
      /\ \/ wpc = "flush" /\ it <= Len(actions_buf)
         \/ wpc = "exec" /\ it <= Len(actions)
         \/ wpc = "drawing")

\* the calls of the last Project operation that match a predicate
CallsOn(s) == {k \in 1..Len(calls) : calls[k][1] = s}

CallsOf(method) == {k \in 1..Len(calls) : calls[k][2] = method}

SubsystemCalls == {k \in 1..Len(calls) : calls[k][1] \in Subsystems}

Awaits == {"await_keypress", "await_anykeys"}

\* C12: when the simulator's step returns non-zero, step() returns -1 with
\* no refresh_visualizer() and no call on the visualizer; when it returns 0,
\* refresh_visualizer() is invoked exactly once and step() returns 0.
C12_StepRefresh ==
    (kind = "Project" /\ op = "step") =>
        /\ calls[1][1] = "simulator" /\ calls[1][2] = "step"
        /\ calls[1][3] # "0" =>
              /\ pret = "-1"
              /\ CallsOf("refresh_visualizer") = {}
              /\ CallsOn("visualizer") = {}
        /\ calls[1][3] = "0" =>
              /\ pret = "0"
              /\ Cardinality(CallsOf("refresh_visualizer")) = 1

\* a step() whose simulator step failed, on a Project with a visualizer
C12_Witness ==
    /\ op = "step" /\ present["visualizer"]
    /\ calls[1][3] = "-1" /\ pret = "-1"

\* C13: reset() returns 0 whenever every call it made on a subsystem
\* succeeded; an absent visualizer or animator contributes no failure.
C13_ResetAggregate ==
    (/\ kind = "Project" /\ op = "reset"
     /\ \A k \in SubsystemCalls : calls[k][3] \in {"0", None}) =>
        pret = "0"

\* C14: after terminate() has returned, every subsystem reference of the
\* Project is None.
C14_ReferencesNulled ==
    (kind = "Project" /\ op = "terminate" /\ pret \in {"0", "-1"}) =>
        \A s \in Subsystems : ~present[s]

\* C15: terminate() calls terminate() on every present subsystem, also
\* after one of them failed, and returns 0 if all of them succeeded and -1
\* otherwise.
C15_BestEffortCascade ==
    [][(nops' # nops /\ op' = "terminate") =>
         /\ \A s \in Subsystems :
               present[s] => \E k \in 1..Len(calls') :
                                calls'[k][1] = s /\ calls'[k][2] = "terminate"
         /\ pret' \in {"0", "-1"}
         /\ (pret' = "0") <=> \A k \in 1..Len(calls') : calls'[k][3] = "0"]_vars

Rank(s) == CASE s = "simulator" -> 1 [] s = "visualizer" -> 2
             [] s = "animator" -> 3 [] s = "keyboard" -> 4

\* C16: within terminate(), reset() and step() no call on a later subsystem
\* precedes a call on an earlier one, in the order simulator, visualizer,
\* animator, keyboard; terminate() calls each subsystem once at most.
C16_FixedOrder ==
    (kind = "Project" /\ op \in {"terminate", "reset", "step"}) =>
        /\ \A j, k \in SubsystemCalls :
              j < k => Rank(calls[j][1]) <= Rank(calls[k][1])
        /\ op = "terminate" =>
              \A j, k \in SubsystemCalls :
                 j < k => Rank(calls[j][1]) < Rank(calls[k][1])
        /\ op \in {"reset", "step"} /\ calls # <<>> =>
              calls[1][1] = "simulator"

\* a terminate() that went through all four subsystems
C16_Witness == op = "terminate" /\ Len(calls) = 4 /\ pret = "-1"

\* C17: without a keyboard await_keypress and await_anykeys raise the
\* AttributeError at once: the polling loop is never entered and nothing is
\* refreshed.
C17_NoKeyboard ==
    /\ [](ppc # "idle" => present["keyboard"])
    /\ [][(nops' # nops /\ op' \in Awaits /\ ~present["keyboard"]) =>
            /\ pret' = "AttributeError"
            /\ ppc' = "idle"
            /\ calls' = <<>>]_vars

\* await_anykeys was called on a Project without a keyboard, after a step
C17_Witness ==
    /\ op = "await_anykeys" /\ pret = "AttributeError"
    /\ ~present["keyboard"] /\ present["visualizer"] /\ nops >= 2

\* C18: with a keyboard and a finite timeout, await_* returns: with 0 (the
\* pressed keys) from a poll that sees the key pressed before the deadline
\* has passed, with -1 (an empty list) from the first poll after it; no
\* exception leaves it.
C18_AwaitReturns ==
    /\ (ppc # "idle" /\ timeout # NoTimeout) ~> (ppc = "idle")
    /\ [][(ppc = "poll" /\ ppc' = "idle") =>
            IF timeout # NoTimeout /\ waited > timeout
            THEN pret' = (IF op = "await_keypress" THEN "-1" ELSE "[]")
            ELSE /\ pressed
                 /\ pret' = (IF op = "await_keypress" THEN "0"
                             ELSE "[key]")]_vars
    /\ [][(ppc = "poll" /\ ppc' = "psleep") =>
            /\ ~pressed
            /\ timeout = NoTimeout \/ waited <= timeout]_vars

\* await_keypress timed out after polling and refreshing
C18_Witness ==
    /\ op = "await_keypress" /\ ppc = "idle" /\ pret = "-1"
    /\ timeout = MaxTimeout /\ calls # <<>>

\* C19: append_point or set_data on line i changes the stored data of line
\* i only and sets the dirty flag of line i only; a redraw changes only
\* artists whose flag is set, and clears only their flags.
C19_FrameCondition ==
    [][kind = "Lineplot" =>
         /\ \A i \in Artists :
               (ncalls' = ncalls + 1 /\ data'[i] # data[i]) =>
                  \A j \in Artists \ {i} :
                     \/ data'[j] = data[j]
                     \/ \E m \in {"append_point", "set_data"} :
                           <<m, j, ncalls'>> \in issued'
         /\ \A i \in Artists :
               (ncalls' = ncalls + 1 /\ need_redraw'[i] /\ ~need_redraw[i])
                  => \E m \in {"append_point", "set_data"} :
                        <<m, i, ncalls'>> \in issued'
         /\ \A i \in Artists :
               (ncalls' = ncalls /\ (artist'[i] # artist[i]
                                     \/ need_redraw'[i] # need_redraw[i]))
                  => need_redraw[i] /\ ~need_redraw'[i]]_vars

\* C20: in threaded mode no figure image is drawn for display while an
\* artist that was mutated has not been redrawn since; and only a flagged
\* artist is redrawn.
C20_RedrawnBeforeShown ==
    [][THREADED =>
         /\ (fpc = "redraw" /\ fpc' = "sleep") =>
               \A i \in Artists : ~need_redraw[i]
         /\ \A i \in Artists : artist'[i] # artist[i] => need_redraw[i]]_vars

\* C21: with threaded=False there is no drawer thread, no mutator raises,
\* and when a mutator has returned the artist it mutated has its flag
\* cleared and shows the stored data.
C21_SynchronousRedraw ==
    (kind \in {"Lineplot", "Barchart"} /\ ~THREADED) =>
        /\ wpc = "none"
        /\ ~raised
        /\ \A a \in issued :
              a[3] = ncalls =>
                 ~need_redraw[a[2]] /\ artist[a[2]] = data[a[2]]


\* C22: in a video the capture shown in the slot at time t is the latest
\* capture made at or before t (zero-order hold), so no capture is shown
\* in a slot earlier than its capture time.
C22_ZeroOrderHold ==
    (kind = "Animator" /\ video # NoVideo) =>
        \A k \in 1..Len(video.idx) :
            LET S == {i \in 1..Len(video.cap_t) :
                        video.cap_t[i] * video.fps <= (k - 1) * TickFrequency}
            IN  /\ video.idx[k] \in S
                /\ \A i \in S : i <= video.idx[k]

\* C23: terminate() on an Animator holding 0 or 1 captures, recording or
\* not, makes no video, returns 0 without raising, leaves no subplot thread
\* to run and resets the locals.
C23_FewFramesNoVideo ==
    [][(Animator_terminate /\ Len(frames) <= 1) =>
          /\ video' = video
          /\ aret' = "0"
          /\ ~started'
          /\ \A i \in PlotIds : ~plot_dirty'[i]
          /\ frames' = <<>> /\ frame_times' = <<>>
          /\ \A i \in PlotIds : plot_data'[i] = NoPlot]_vars

C23_Witness ==
    /\ kind = "Animator" /\ record
    /\ ~started /\ aret = "0" /\ video = NoVideo
    /\ plot_data[1] = NoPlot
    /\ now > 0 /\ last_refresh = now

C25_FrameRate ==
    (kind = "Animator" /\ video # NoVideo) =>
        LET m == Len(video.cap_t)
            G == {video.cap_t[i + 1] - video.cap_t[i] : i \in 1..(m - 1)}
            g == CHOOSE d \in G : \A e \in G : d <= e
            r == CHOOSE f \in {5 * q : q \in 0..TickFrequency} :
                    f * g >= TickFrequency /\ (f - 5) * g < TickFrequency
        IN  /\ g > 0
            /\ video.fps = IF r < 20 THEN 20 ELSE IF r > 120 THEN 120 ELSE r
            /\ video.fps % 5 = 0 /\ video.fps >= 20 /\ video.fps <= 120
            /\ (TickFrequency <= 120 * g) => video.fps * g >= TickFrequency

\* a video whose rate is neither of the two limits
C25_Witness ==
    /\ kind = "Animator" /\ video # NoVideo
    /\ video.fps > MinFps /\ video.fps < MaxFps

IsPrefix(a, b) == Len(a) <= Len(b) /\ \A i \in 1..Len(a) : a[i] = b[i]

\* C26: with record off the frame list stays empty; with record on the
\* frame list and the tick list have the same length, the ticks never
\* decrease, and between start() and terminate() both lists only grow at
\* the end.
C26_FramesOnlyGrow ==
    /\ [](kind = "Animator" =>
            /\ (~record => frames = <<>>)
            /\ Len(frames) = Len(frame_times)
            /\ \A i \in 1..(Len(frame_times) - 1) :
                  frame_times[i] <= frame_times[i + 1])
    /\ [][(kind = "Animator" /\ started /\ started') =>
            IsPrefix(frames, frames') /\ IsPrefix(frame_times, frame_times')]_vars

C26_Witness ==
    /\ kind = "Animator" /\ record /\ started
    /\ Len(frames) = MaxCaptures
    /\ frames[2] # frames[1]

\* C27: a capture is appended only by a refresh with recording on whose
\* image differs from the image of the capture before it.
C27_CaptureOnChange ==
    [][(kind = "Animator" /\ Len(frames') > Len(frames)) =>
          /\ record
          /\ Len(frames) >= 1 =>
                frames'[Len(frames')] # frames[Len(frames)]]_vars

\* C28: the Visualizer worker sends actions to the scene, and a started
\* Animator's refresh shows the image, exactly when the time since
\* last_refresh has reached frame_delta (always, with frame_delta = 0);
\* last_refresh is stamped by a rendering iteration only, never by a poll
\* that was skipped.
C28_FrameClock ==
    /\ [][kind = "Visualizer" =>
            /\ scene' # scene => elapsed >= frame_delta
            /\ elapsed' < elapsed => (wpc = "exec" /\ wpc' = "sleep")
            /\ (wpc = "frame" /\ wpc' = "frame" /\ elapsed' # elapsed) =>
                  (elapsed < frame_delta /\ scene' = scene)
            /\ (wpc = "frame" /\ wpc' # "frame") =>
                  elapsed >= frame_delta]_vars
    /\ [][kind = "Animator" =>
            /\ nshown' # nshown =>
                  /\ now - last_refresh >= frame_delta
                  /\ last_refresh' = now'
            /\ last_refresh' # last_refresh =>
                  \/ nshown' = nshown + 1
                  \/ Animator_terminate
                  \/ Animator_start /\ aret' = "raise"
            /\ (Animator_refresh /\ started) =>
                  (nshown' = nshown + 1 <=>
                      now - last_refresh >= frame_delta)]_vars

\* a throttled Animator that has rendered twice and then skipped a poll
C28_Witness ==
    /\ kind = "Animator" /\ started
    /\ frame_delta = MaxAnimDelta
    /\ nshown >= 2
    /\ now > last_refresh

\* C29: a Visualizer setter whose arguments fail validation (nothing is
\* queued for the call) returns -1, and a setter that returns -1 leaves the
\* action buffer and the object registry as they were.
C29_InvalidIsNoOp ==
    [][(kind = "Visualizer" /\ ncalls' = ncalls + 1) =>
          /\ (issued' = issued) <=> (sret' = "-1")
          /\ sret' = "-1" =>
                (actions_buf' = actions_buf /\ objects' = objects)]_vars

\* a setter was rejected after an object had been added
C29_Witness ==
    /\ kind = "Visualizer"
    /\ sret = "-1"
    /\ ncalls = MaxCalls
    /\ objects # {}

\* C30: barchart_set_value, lineplot_append_point, lineplot_set_data and
\* reset_all on an Animator that is not started (before start() or after
\* terminate()) return -1 and change no subplot data, no dirty flag, no
\* recorded frame, and do not refresh.
C30_LifecycleGuard ==
    [][(kind = "Animator" /\ acalls' = acalls + 1 /\ ~started) =>
          /\ aret' = "-1"
          /\ UNCHANGED <<plot_data, plot_dirty, image, frames, frame_times,
                         nshown, last_refresh, now, started, video>>]_vars

\* a mutator or reset_all was rejected after a recording session was
\* terminated (a refresh() that soon after terminate() is throttled and
\* returns 0)
C30_Witness ==
    /\ kind = "Animator" /\ ~started
    /\ aret = "-1" /\ acalls >= 1
    /\ video # NoVideo
    /\ plot_data[1] = NoPlot
    /\ frame_delta = MaxAnimDelta /\ now = last_refresh

\* C31: a setter called after terminate() has returned, or after the worker
\* exited on a closed transport, returns -1 and enqueues nothing: the
\* action buffer stays empty.
C31_SetterAfterTerminate ==
    [][(/\ kind = "Visualizer"
        /\ nterm >= 1 \/ wpc = "closed"
        /\ mpc = "idle"
        /\ ncalls' = ncalls + 1) =>
          (sret' = "-1" /\ actions_buf' = actions_buf)]_vars


\* C32: on every Project.reset() of a Project with an animator, the
\* animator's start() is invoked exactly when the animator is not running
\* and its reset() exactly when it is: start() is never invoked on a running
\* animator.
C32_ResetStartsOrResets ==
    [][(/\ kind = "Project"
        /\ op' = "reset"
        /\ nops' = nops + 1
        /\ present["animator"]) =>
          /\ (\E k \in DOMAIN calls' : /\ calls'[k][1] = "animator"
                                       /\ calls'[k][2] = "start") <=> ~running
          /\ (\E k \in DOMAIN calls' : /\ calls'[k][1] = "animator"
                                       /\ calls'[k][2] = "reset") <=> running]_vars

\* a later reset() found the animator running and reset it
C32_Witness ==
    /\ kind = "Project"
    /\ op = "reset"
    /\ nops >= 2
    /\ running
    /\ \E k \in DOMAIN calls : /\ calls[k][1] = "animator"
                               /\ calls[k][2] = "reset"


C34_SubplotIds ==
    kind = "AnimatorSetup" =>
        /\ Len(plots) <= HexBase
        /\ \A k \in DOMAIN ids :
               /\ is_valid_id(ids[k])
               /\ is_subplot_ind(plots, ids[k])
               /\ artist_ind_ok(plots, ids[k])
               /\ ParseHex(ids[k]) \div HexBase = Len(plots) - 1
               /\ ParseHex(ids[k]) % HexBase = k - 1


\* C35: whatever subsystems the Project was constructed with, an interrupt
\* or termination signal runs Project.terminate(): terminate() is called on
\* the simulator and on every subsystem that is present.
C35_SignalTerminatesAll ==
    [][(/\ kind = "Project"
        /\ op' = "signal"
        /\ nops' = nops + 1) =>
          \A s \in Subsystems :
              (s = "simulator" \/ present[s]) =>
                  \/ Raised(calls')
                  \/ \E k \in DOMAIN calls' : /\ calls'[k][1] = s
                                              /\ calls'[k][2] = "terminate"]_vars


\* C36: a signal handled on the main thread never deadlocks the teardown:
\* the terminate() the handler calls never waits for the instance lock while
\* the main thread itself holds it inside a setter.
C36_SignalNoDeadlock ==
    ~(kind = "Visualizer" /\ mpc = "sig_lock" /\ LOCK = "main")


\* the arguments a light setter's call passes (the others are left None):
\* odd calls pass only `on`, even calls only `intensity`
Given(id) == IF id % 2 = 1 THEN {"on"} ELSE {"intensity"}

\* _set_light sets the properties whose argument is not None: the call whose
\* value the scene holds for property f of a light, from position k of the
\* executed actions downwards; -1 if no executed call of 1.. set it
RECURSIVE Applied(_, _, _)
Applied(name, f, k) ==
    IF k = 0 THEN -1
    ELSE IF /\ scene[k][1] = "_set_lights" /\ scene[k][2] = name
            /\ scene[k][3] >= 1 /\ f \in Given(scene[k][3])
         THEN scene[k][3]
    ELSE Applied(name, f, k - 1)

\* C37: partial updates survive coalescing: once the worker has executed
\* everything that was queued, each property a light setter's call passed is
\* applied to the scene with the value of the latest call that passed it,
\* also when a later call for the same light passed only another property
\* before the drain.
C37_PartialUpdatesSurvive ==
    (/\ kind = "Visualizer"
     /\ Pending = {}
     /\ wpc \notin {"exited", "closed", "raised"}
     /\ nterm = 0 /\ mpc = "idle") =>
        \A a \in issued :
            (a[1] = "_set_lights" /\ a[3] >= 1) =>
                \A f \in Given(a[3]) :
                    /\ Applied(a[2], f, Len(scene)) >= a[3]
                    /\ <<"_set_lights", a[2], Applied(a[2], f, Len(scene))>>
                           \in issued


\* C38: the worker applies an object's add action before any transform or
\* material action of that object: every transform / material action the
\* scene backend received comes after an add action of the same object.
C38_AddBeforeUse ==
    kind = "Visualizer" =>
        \A k \in 1..Len(scene) :
            scene[k][1] \in {"_set_transforms", "_set_materials"} =>
                \E j \in 1..(k - 1) : /\ scene[j][1] = "_add_objects"
                                      /\ scene[j][2] = scene[k][2]


\* C39: on a started Animator a mutator called with an invalid artist id (no
\* hex number, above 255, a subplot or an artist that does not exist, a
\* subplot of the other kind) returns -1 without raising and changes no
\* subplot data, no dirty flag and no frame.
C39_InvalidIdRejected ==
    [][(/\ started
        /\ \E pk \in {"Lineplot", "Barchart"}, id \in IdInputs,
              valid \in BOOLEAN :
               /\ Sanitize(RegPlots, pk, id) # "ok"
               /\ AnimMutate(pk, id, valid)) =>
          /\ aret' = "-1"
          /\ UNCHANGED <<plot_data, plot_dirty, image, frames, frame_times,
                         started>>]_vars


\* C40: a teardown of the Animator attempts terminate() on every subplot and
\* then on the figure, going on when one raises; it saves the recording only
\* after all of them, with every thread that was built joined; and
\* terminate() leaves the Animator not started, without plots, figure image
\* or frames, and returns 0.
C40_TeardownOrder ==
    /\ [](kind = "Animator" =>
            \A k \in DOMAIN tlog :
                /\ tlog[k][1] = "subplot" =>
                       \E j \in (k + 1)..Len(tlog) : tlog[j][1] = "figure"
                /\ tlog[k][1] = "save" =>
                       /\ k = Len(tlog)
                       /\ \E j \in 1..(k - 1) : tlog[j][1] = "figure"
                       /\ \A j \in 1..(k - 1) : tlog[j][2] = "joined")
    /\ [][Animator_terminate =>
            /\ Len(tlog') >= RegCount + 1
            /\ \A i \in 1..RegCount : tlog'[i][1] = "subplot"
            /\ started => \A j \in 1..(RegCount + 1) : tlog'[j][2] = "joined"
            /\ ~started' /\ frames' = <<>> /\ frame_times' = <<>>
            /\ \A i \in PlotIds : plot_data'[i] = NoPlot /\ image'[i] = 0
            /\ aret' = "0"]_vars

\* terminate() joined the threads of both subplots and of the figure and then
\* saved the recording
C40_Witness ==
    /\ kind = "Animator" /\ ~started
    /\ aret = "0"
    /\ video # NoVideo
    /\ Len(tlog) = Len(Plots) + 2
    /\ tlog[1] = <<"subplot", "joined">>
    /\ tlog[Len(tlog)] = <<"save", "0">>
    /\ frames = <<>>

====
